---- MODULE Spec2Model ----
(***************************************************************************)
(* A model of src/src/partition/mod.rs: the versioned key model, the       *)
(* write buffer of a partition, the freeze / flush state machine, the      *)
(* admission loop of ArcPartition::write and the range comparison of two   *)
(* partitions.                                                             *)
(***************************************************************************)
EXTENDS Integers, Sequences, FiniteSets, TLC

(***************************************************************************)
(* Bounds of the model.                                                    *)
(***************************************************************************)
\* write calls begun in one behaviour
MaxWrites == 4

(***************************************************************************)
(* Program constants and configuration.                                    *)
(***************************************************************************)
\* crate::table::tablefmt (imported at mod.rs:8); the values of spec.md, 8.7
TABLE_CATALOG_ITEM_SIZE == 24
TABLE_MIN_SIZE == 64
\* Options::table_size, the threshold read at mod.rs:209 and mod.rs:292
table_size == 115

\* the partitions of the store
Partitions == {1, 2}
\* the writer threads, each holding a clone of the shared handle
Writers == {1, 2}
\* the sequence numbers a caller passes
Seqs == {1, 2}
\* raw user key bytes and value bytes a caller passes
KeyBytes == {<<1>>, <<1, 2>>, <<2>>}
BigValue == [i \in 1..30 |-> 0]
Values == {<<7>>, BigValue}
\* Error values (crate::error::Error, clonable)
Errors == {"E1", "E2"}

(***************************************************************************)
(* Option<T>: None is the empty sequence, Some(x) the one-element one.     *)
(***************************************************************************)
None == <<>>
Some(x) == <<x>>
is_some(o) == Len(o) = 1
is_none(o) == Len(o) = 0
unwrap(o) == o[1]

(***************************************************************************)
(* Comparator and UserKey (mod.rs:18-77).                                  *)
(***************************************************************************)
\* DefaultComparator::compare: the byte-wise lexicographic order of slices
RECURSIVE Compare(_, _)
Compare(a, b) ==
    IF Len(a) = 0 /\ Len(b) = 0 THEN "Equal"
    ELSE IF Len(a) = 0 THEN "Less"
    ELSE IF Len(b) = 0 THEN "Greater"
    ELSE IF Head(a) < Head(b) THEN "Less"
    ELSE IF Head(a) > Head(b) THEN "Greater"
    ELSE Compare(Tail(a), Tail(b))

\* UserKey::new_owned / UserKey::new_borrow: the two variants of the enum
new_owned(vec) == [owned |-> TRUE, data |-> vec]
new_borrow(slice) == [owned |-> FALSE, data |-> slice]
\* UserKey::key
key(uk) == uk.data
\* UserKey::is_owned
is_owned(uk) == uk.owned
\* <UserKey as Clone>::clone keeps the variant
clone(uk) == IF uk.owned THEN new_owned(uk.data) ELSE new_borrow(uk.data)
\* <UserKey as Ord>::cmp
UserKeyCmp(a, b) == Compare(key(a), key(b))

(***************************************************************************)
(* InternalKey (mod.rs:79-113).                                            *)
(***************************************************************************)
\* InternalKey::new
InternalKey(seq, user_key) == [seq |-> seq, user_key |-> user_key]
\* u64::cmp on the sequence numbers
SeqCmp(a, b) == IF a < b THEN "Less" ELSE IF a > b THEN "Greater" ELSE "Equal"
\* a variant that compares the user keys first and the sequence numbers last
InternalKeyCmp_user_key_first(a, b) ==
    LET ord == UserKeyCmp(a.user_key, b.user_key)
    IN  IF ord = "Equal" THEN SeqCmp(a.seq, b.seq) ELSE ord

\* <InternalKey as Ord>::cmp: sequence number first, then the user key
InternalKeyCmp(a, b) ==
    LET ord == SeqCmp(a.seq, b.seq)
    IN  IF ord = "Equal" THEN UserKeyCmp(a.user_key, b.user_key) ELSE ord

(***************************************************************************)
(* MemTable = BTreeMap<InternalKey, Vec<u8>> (mod.rs:115): the sequence of *)
(* its entries in iteration order, ascending by InternalKeyCmp.            *)
(***************************************************************************)
MemTableNew == <<>>

\* the number of entries that sort strictly before k
RECURSIVE LowerPos(_, _)
LowerPos(m, k) ==
    IF Len(m) = 0 THEN 0
    ELSE IF InternalKeyCmp(Head(m).key, k) = "Less" THEN 1 + LowerPos(Tail(m), k)
    ELSE 0

\* BTreeMap::insert: an equal key keeps the stored key and takes the new
\* value; otherwise the entry goes to its place in the order
BTreeInsert(m, k, v) ==
    LET i == LowerPos(m, k)
    IN  IF i < Len(m) /\ InternalKeyCmp(m[i + 1].key, k) = "Equal"
        THEN [m EXCEPT ![i + 1].value = v]
        ELSE SubSeq(m, 1, i) \o <<[key |-> k, value |-> v]>> \o SubSeq(m, i + 1, Len(m))

\* kv_pair_size (mod.rs:196-199)
kv_pair_size(k, value) == Len(key(k.user_key)) + Len(value) + TABLE_CATALOG_ITEM_SIZE

(***************************************************************************)
(* PartitionData (mod.rs:229-330), a record of its fields.                 *)
(***************************************************************************)
\* PartitionData::new
PartitionDataNew ==
    [mem_table |-> MemTableNew,
     mem_table_data_size |-> 0,
     imm_table |-> None,
     levels |-> <<>>,
     lower_bound |-> None,
     upper_bound |-> None,
     background_error |-> None]

\* the outcome of a method that may panic: the state it leaves behind
Returned(d) == [panicked |-> FALSE, data |-> d]
Panicked(d) == [panicked |-> TRUE, data |-> d]

\* PartitionData::background_error: Err(clone of the fault) or Ok(())
background_error(d) ==
    IF is_some(d.background_error) THEN <<"Err", unwrap(d.background_error)>>
    ELSE <<"Ok">>

\* a variant that keeps the fault already recorded (Option::get_or_insert)
record_background_error_keeps_first(d, error) ==
    IF is_some(d.background_error) THEN d
    ELSE [d EXCEPT !.background_error = Some(error)]

\* PartitionData::record_background_error: Option::replace
record_background_error(d, error) == [d EXCEPT !.background_error = Some(error)]

\* a variant that never sees the pending-flush buffer
has_imm_never(d) == FALSE

\* PartitionData::has_imm
has_imm(d) == is_some(d.imm_table)

\* PartitionData::imm_data: the add_kv calls made on the table builder, in
\* the iteration order of the pending-flush buffer
imm_data(d) ==
    LET imm == unwrap(d.imm_table)
    IN  [i \in 1..Len(imm) |->
            <<imm[i].key.seq, key(imm[i].key.user_key), imm[i].value>>]

\* Level::add_file appends the table to the level's files
add_file(level, table) == Append(level, table)

\* PartitionData::replace_imm_with_table: take() the pending-flush buffer,
\* then index levels[0], which panics when the vector is empty
replace_imm_with_table(d, table) ==
    LET d1 == [d EXCEPT !.imm_table = None]
    IN  IF Len(d1.levels) = 0 THEN Panicked(d1)
        ELSE Returned([d1 EXCEPT !.levels[1] = add_file(d1.levels[1], table)])

\* PartitionData::memtable_size
memtable_size(d) ==
    d.mem_table_data_size + Len(d.mem_table) * TABLE_CATALOG_ITEM_SIZE + TABLE_MIN_SIZE

\* PartitionData::set_lower_bound; the debug_assert! is compiled in debug builds
set_lower_bound(d, lower_bound, dbg) ==
    IF dbg /\ ~is_owned(lower_bound) THEN Panicked(d)
    ELSE Returned([d EXCEPT !.lower_bound = Some(lower_bound)])

\* PartitionData::set_upper_bound
set_upper_bound(d, upper_bound, dbg) ==
    IF dbg /\ ~is_owned(upper_bound) THEN Panicked(d)
    ELSE Returned([d EXCEPT !.upper_bound = Some(upper_bound)])

\* a variant whose last branch is missing: the upper bound is never widened
put_bounds_lower_only(d, k, dbg) ==
    IF is_none(d.lower_bound) /\ is_none(d.upper_bound)
    THEN LET r == set_lower_bound(d, clone(k.user_key), dbg)
         IN  IF r.panicked THEN r ELSE set_upper_bound(r.data, clone(k.user_key), dbg)
    ELSE IF UserKeyCmp(k.user_key, unwrap(d.lower_bound)) = "Less"
    THEN set_lower_bound(d, clone(k.user_key), dbg)
    ELSE Returned(d)

\* a variant whose last branch has lost its comparison: a key that is not
\* below the lower bound becomes the upper bound
put_bounds_upper_unconditional(d, k, dbg) ==
    IF is_none(d.lower_bound) /\ is_none(d.upper_bound)
    THEN LET r == set_lower_bound(d, clone(k.user_key), dbg)
         IN  IF r.panicked THEN r ELSE set_upper_bound(r.data, clone(k.user_key), dbg)
    ELSE IF UserKeyCmp(k.user_key, unwrap(d.lower_bound)) = "Less"
    THEN set_lower_bound(d, clone(k.user_key), dbg)
    ELSE set_upper_bound(d, clone(k.user_key), dbg)

\* the bounds update of memtable_put (mod.rs:293-300)
put_bounds(d, k, dbg) ==
    IF is_none(d.lower_bound) /\ is_none(d.upper_bound)
    THEN LET r == set_lower_bound(d, clone(k.user_key), dbg)
         IN  IF r.panicked THEN r ELSE set_upper_bound(r.data, clone(k.user_key), dbg)
    ELSE IF UserKeyCmp(k.user_key, unwrap(d.lower_bound)) = "Less"
    THEN set_lower_bound(d, clone(k.user_key), dbg)
    ELSE IF UserKeyCmp(k.user_key, unwrap(d.upper_bound)) = "Greater"
    THEN set_upper_bound(d, clone(k.user_key), dbg)
    ELSE Returned(d)

\* PartitionData::memtable_put
memtable_put(d, k, value, dbg) ==
    IF dbg /\ ~(memtable_size(d) + kv_pair_size(k, value) <= table_size)
    THEN Panicked(d)
    ELSE LET r == put_bounds(d, k, dbg)
         IN  IF r.panicked THEN r
             ELSE Returned([r.data EXCEPT !.mem_table = BTreeInsert(@, k, value)])

\* a variant that copies the active buffer and does not replace it
convert_mem_to_imm_keeps_mem(d) == [d EXCEPT !.imm_table = Some(d.mem_table)]

\* PartitionData::convert_mem_to_imm
convert_mem_to_imm(d) ==
    [d EXCEPT !.imm_table = Some(d.mem_table), !.mem_table = MemTableNew]

\* PartitionData::bounds
bounds(d) == <<d.lower_bound, d.upper_bound>>

\* PartitionData::debug_bounds_sanity_check
debug_bounds_sanity_check(d) == is_some(d.lower_bound) = is_some(d.upper_bound)

(***************************************************************************)
(* State.  data, mutex and poisoned are Partition::data (a                 *)
(* Mutex<PartitionData>) of each partition; a thread waiting on            *)
(* Partition::condvar is one whose pc is "waiting".                        *)
(***************************************************************************)
VARIABLES
    debug_assertions,  \* the build: whether debug_assert! is compiled in
    data,              \* data[p]: the PartitionData behind partition p's mutex
    mutex,             \* mutex[p]: the thread holding the guard, or Free
    poisoned,          \* poisoned[p]: a thread panicked while holding the guard
    pc,                \* pc[t]: where writer t stands in ArcPartition::write
    req,               \* req[t]: the arguments of writer t's call
    nwrites,           \* write calls begun so far
    acked,             \* acked[p]: the pairs whose write returned Ok(())
    flush_pc,          \* flush_pc[p]: where the flush of partition p stands
    flush_table,       \* flush_table[p]: the table the flush has built
    fault_read,        \* fault_read[p]: what the last background_error() returned
    cmp_pc,            \* cmp_pc[c]: where comparing thread c stands
    cmp_req,           \* cmp_req[c]: the partitions it compares, self first
    cmp_result         \* cmp_result[c]: what its comparison returned

vars == <<debug_assertions, data, mutex, poisoned, pc, req, nwrites, acked,
          flush_pc, flush_table, fault_read, cmp_pc, cmp_req, cmp_result>>

wvars == <<pc, req, nwrites, acked>>
fvars == <<flush_pc, flush_table, fault_read>>
cvars == <<cmp_pc, cmp_req, cmp_result>>

Free == <<>>
W(t) == <<"writer", t>>
C(c) == <<"cmp", c>>
NoReq == [p |-> 0, key |-> InternalKey(0, new_owned(<<>>)), value |-> <<>>]
Comparers == {1, 2}
NoCmp == [self |-> 0, other |-> 0]

Init ==
    /\ debug_assertions \in BOOLEAN
    /\ data = [p \in Partitions |-> PartitionDataNew]
    /\ mutex = [p \in Partitions |-> Free]
    /\ poisoned = [p \in Partitions |-> FALSE]
    /\ pc = [t \in Writers |-> "idle"]
    /\ req = [t \in Writers |-> NoReq]
    /\ nwrites = 0
    /\ acked = [p \in Partitions |-> {}]
    /\ flush_pc = [p \in Partitions |-> "idle"]
    /\ flush_table = [p \in Partitions |-> <<>>]
    /\ fault_read = [p \in Partitions |-> <<"unread">>]
    /\ cmp_pc = [c \in Comparers |-> "idle"]
    /\ cmp_req = [c \in Comparers |-> NoCmp]
    /\ cmp_result = [c \in Comparers |-> <<"none">>]

(***************************************************************************)
(* ArcPartition::write (mod.rs:205-221).  The guard is held from line 207  *)
(* to the return, except inside Condvar::wait, so a call is one step up to *)
(* its return, its panic or its wait, and one more step each time wait     *)
(* returns.                                                                *)
(***************************************************************************)
\* a variant of the condition with < for <=
fits_strictly(d, k, value) == memtable_size(d) + kv_pair_size(k, value) < table_size

\* the condition of line 209
fits(d, k, value) == memtable_size(d) + kv_pair_size(k, value) <= table_size

\* the state the loop of lines 208-218 hands to memtable_put when it breaks:
\* as it is (line 210), or after the freeze of line 214
admit(d, k, value) ==
    IF fits(d, k, value) THEN d ELSE convert_mem_to_imm(d)

\* one pass of the loop with the guard held: wait on the condition variable
\* (line 212, which releases the guard), or break, insert (line 219) and
\* return Ok(()) (line 220); a panic in memtable_put poisons the mutex
LoopPass(t, p, k, value) ==
    LET d == data[p]
    IN  IF ~fits(d, k, value) /\ has_imm(d)
        THEN /\ pc' = [pc EXCEPT ![t] = "waiting"]
             /\ req' = [req EXCEPT ![t] = [p |-> p, key |-> k, value |-> value]]
             /\ UNCHANGED <<data, poisoned, acked>>
        ELSE LET r == memtable_put(admit(d, k, value), k, value, debug_assertions)
             IN  /\ data' = [data EXCEPT ![p] = r.data]
                 /\ req' = [req EXCEPT ![t] = NoReq]
                 /\ IF r.panicked
                    THEN /\ pc' = [pc EXCEPT ![t] = "panicked"]
                         /\ poisoned' = [poisoned EXCEPT ![p] = TRUE]
                         /\ UNCHANGED acked
                    ELSE /\ pc' = [pc EXCEPT ![t] = "idle"]
                         /\ acked' = [acked EXCEPT ![p] = @ \cup {[key |-> k, value |-> value]}]
                         /\ UNCHANGED poisoned

\* line 207: partition.data.lock().unwrap(); on a poisoned mutex lock()
\* returns Err and unwrap panics; otherwise the loop is entered
Write(t, p, k, value) ==
    /\ pc[t] = "idle"
    /\ nwrites < MaxWrites
    /\ mutex[p] = Free
    /\ nwrites' = nwrites + 1
    /\ IF poisoned[p]
       THEN /\ pc' = [pc EXCEPT ![t] = "panicked"]
            /\ UNCHANGED <<data, poisoned, req, acked>>
       ELSE LoopPass(t, p, k, value)
    /\ UNCHANGED <<debug_assertions, mutex, fvars, cvars>>

\* line 212: Condvar::wait returns once the thread is woken and has the
\* mutex again, and the loop is re-entered; unwrap panics when the mutex was
\* poisoned meanwhile.  No code of the repository calls notify_one or
\* notify_all on Partition::condvar, so the only wakeup is a spurious one.
SpuriousWakeup(t) ==
    /\ pc[t] = "waiting"
    /\ mutex[req[t].p] = Free
    /\ IF poisoned[req[t].p]
       THEN /\ pc' = [pc EXCEPT ![t] = "panicked"]
            /\ req' = [req EXCEPT ![t] = NoReq]
            /\ UNCHANGED <<data, poisoned, acked>>
       ELSE LoopPass(t, req[t].p, req[t].key, req[t].value)
    /\ UNCHANGED <<debug_assertions, mutex, nwrites, fvars, cvars>>

(***************************************************************************)
(* The flush of a pending-flush buffer, driven from outside the module     *)
(* through imm_data, replace_imm_with_table and record_background_error.   *)
(***************************************************************************)
\* the flush of a frozen buffer takes the guard (lock().unwrap(), which
\* panics on a poisoned mutex) and serialises the pending-flush buffer
FlushSerialize(p) ==
    /\ flush_pc[p] = "idle"
    /\ mutex[p] = Free
    /\ has_imm(data[p])
    /\ IF poisoned[p]
       THEN /\ flush_pc' = [flush_pc EXCEPT ![p] = "panicked"]
            /\ UNCHANGED flush_table
       ELSE /\ flush_table' = [flush_table EXCEPT ![p] = imm_data(data[p])]
            /\ flush_pc' = [flush_pc EXCEPT ![p] = "built"]
    /\ UNCHANGED <<debug_assertions, data, mutex, poisoned, wvars, fault_read, cvars>>

\* it installs the table under the guard; a panic inside poisons the mutex
FlushInstall(p) ==
    /\ flush_pc[p] = "built"
    /\ mutex[p] = Free
    /\ flush_table' = [flush_table EXCEPT ![p] = <<>>]
    /\ IF poisoned[p]
       THEN /\ flush_pc' = [flush_pc EXCEPT ![p] = "panicked"]
            /\ UNCHANGED <<data, poisoned>>
       ELSE LET r == replace_imm_with_table(data[p], flush_table[p])
            IN  /\ data' = [data EXCEPT ![p] = r.data]
                /\ poisoned' = [poisoned EXCEPT ![p] = r.panicked]
                /\ flush_pc' = [flush_pc EXCEPT ![p] =
                       IF r.panicked THEN "panicked" ELSE "idle"]
    /\ UNCHANGED <<debug_assertions, mutex, wvars, fault_read, cvars>>

\* or the serialisation failed, and it records the fault under the guard
FlushFail(p, e) ==
    /\ flush_pc[p] = "built"
    /\ mutex[p] = Free
    /\ flush_table' = [flush_table EXCEPT ![p] = <<>>]
    /\ IF poisoned[p]
       THEN /\ flush_pc' = [flush_pc EXCEPT ![p] = "panicked"]
            /\ UNCHANGED data
       ELSE /\ data' = [data EXCEPT ![p] = record_background_error(@, e)]
            /\ flush_pc' = [flush_pc EXCEPT ![p] = "idle"]
    /\ UNCHANGED <<debug_assertions, mutex, poisoned, wvars, fault_read, cvars>>

\* a caller queries the sticky fault under the guard (on a poisoned mutex
\* its lock().unwrap() panics and it reads nothing)
FaultQuery(p) ==
    /\ mutex[p] = Free
    /\ ~poisoned[p]
    /\ fault_read' = [fault_read EXCEPT ![p] = background_error(data[p])]
    /\ UNCHANGED <<debug_assertions, data, mutex, poisoned, wvars, flush_pc, flush_table, cvars>>

(***************************************************************************)
(* The range comparison of two partitions (mod.rs:143-164).                *)
(***************************************************************************)
\* a variant whose second branch returns the ordering of the first
partial_cmp_both_less(d_self, d_other) ==
    LET self_lower == bounds(d_self)[1]
        self_upper == bounds(d_self)[2]
        other_lower == bounds(d_other)[1]
        other_upper == bounds(d_other)[2]
    IN  IF is_none(self_upper) \/ is_none(other_lower) THEN <<"panic">>
        ELSE IF UserKeyCmp(unwrap(self_upper), unwrap(other_lower)) = "Less"
        THEN <<"Some", "Less">>
        ELSE IF is_none(self_lower) \/ is_none(other_upper) THEN <<"panic">>
        ELSE IF UserKeyCmp(unwrap(self_lower), unwrap(other_upper)) = "Greater"
        THEN <<"Some", "Less">>
        ELSE <<"None">>

\* a variant that takes touching ranges for ordered ones (<= for <)
partial_cmp_touching_less(d_self, d_other) ==
    LET self_lower == bounds(d_self)[1]
        self_upper == bounds(d_self)[2]
        other_lower == bounds(d_other)[1]
        other_upper == bounds(d_other)[2]
    IN  IF is_none(self_upper) \/ is_none(other_lower) THEN <<"panic">>
        ELSE IF UserKeyCmp(unwrap(self_upper), unwrap(other_lower)) # "Greater"
        THEN <<"Some", "Less">>
        ELSE IF is_none(self_lower) \/ is_none(other_upper) THEN <<"panic">>
        ELSE IF UserKeyCmp(unwrap(self_lower), unwrap(other_upper)) # "Less"
        THEN <<"Some", "Greater">>
        ELSE <<"None">>

\* the decision of <Partition as PartialOrd>::partial_cmp on the two states
\* behind the guards (lines 147-156); Option::unwrap panics on None
partial_cmp(d_self, d_other) ==
    LET self_lower == bounds(d_self)[1]
        self_upper == bounds(d_self)[2]
        other_lower == bounds(d_other)[1]
        other_upper == bounds(d_other)[2]
    IN  IF is_none(self_upper) \/ is_none(other_lower) THEN <<"panic">>
        ELSE IF UserKeyCmp(unwrap(self_upper), unwrap(other_lower)) = "Less"
        THEN <<"Some", "Less">>
        ELSE IF is_none(self_lower) \/ is_none(other_upper) THEN <<"panic">>
        ELSE IF UserKeyCmp(unwrap(self_lower), unwrap(other_upper)) = "Greater"
        THEN <<"Some", "Greater">>
        ELSE <<"None">>

\* <Partition as Ord>::cmp: self.partial_cmp(other).unwrap()
partition_cmp(d_self, d_other) ==
    LET r == partial_cmp(d_self, d_other)
    IN  IF r[1] = "Some" THEN <<r[2]>> ELSE <<"panic">>

\* line 145: self.data.lock().unwrap()
CmpLockSelf(c, a, b) ==
    /\ cmp_pc[c] = "idle"
    /\ a # b
    /\ mutex[a] = Free
    /\ cmp_result' = [cmp_result EXCEPT ![c] = <<"none">>]
    /\ IF poisoned[a]
       THEN /\ cmp_pc' = [cmp_pc EXCEPT ![c] = "panicked"]
            /\ UNCHANGED <<mutex, cmp_req>>
       ELSE /\ cmp_pc' = [cmp_pc EXCEPT ![c] = "locked_self"]
            /\ cmp_req' = [cmp_req EXCEPT ![c] = [self |-> a, other |-> b]]
            /\ mutex' = [mutex EXCEPT ![a] = C(c)]
    /\ UNCHANGED <<debug_assertions, data, poisoned, wvars, fvars>>

\* a variant of the second lock that does not wait for other's mutex
CmpLockOther_without_waiting(c) ==
    /\ cmp_pc[c] = "locked_self"
    /\ LET a == cmp_req[c].self
           b == cmp_req[c].other
           r == partial_cmp(data[a], data[b])
       IN  /\ mutex' = [mutex EXCEPT ![a] = Free]
           /\ cmp_req' = [cmp_req EXCEPT ![c] = NoCmp]
           /\ IF poisoned[b] \/ r = <<"panic">>
              THEN /\ poisoned' = [poisoned EXCEPT ![a] = TRUE]
                   /\ cmp_pc' = [cmp_pc EXCEPT ![c] = "panicked"]
                   /\ UNCHANGED cmp_result
              ELSE /\ UNCHANGED poisoned
                   /\ cmp_result' = [cmp_result EXCEPT ![c] = r]
                   /\ cmp_pc' = [cmp_pc EXCEPT ![c] = "idle"]
    /\ UNCHANGED <<debug_assertions, data, wvars, fvars>>

\* line 146: other.data.lock().unwrap(), then lines 147-157 with both guards
\* held; a panic drops the guards it holds, which poisons their mutexes
CmpLockOther(c) ==
    /\ cmp_pc[c] = "locked_self"
    /\ LET a == cmp_req[c].self
           b == cmp_req[c].other
           r == partial_cmp(data[a], data[b])
       IN  /\ mutex[b] = Free
           /\ mutex' = [mutex EXCEPT ![a] = Free]
           /\ cmp_req' = [cmp_req EXCEPT ![c] = NoCmp]
           /\ IF poisoned[b]
              THEN /\ poisoned' = [poisoned EXCEPT ![a] = TRUE]
                   /\ cmp_pc' = [cmp_pc EXCEPT ![c] = "panicked"]
                   /\ UNCHANGED cmp_result
              ELSE IF r = <<"panic">>
              THEN /\ poisoned' = [poisoned EXCEPT ![a] = TRUE, ![b] = TRUE]
                   /\ cmp_pc' = [cmp_pc EXCEPT ![c] = "panicked"]
                   /\ UNCHANGED cmp_result
              ELSE /\ UNCHANGED poisoned
                   /\ cmp_result' = [cmp_result EXCEPT ![c] = r]
                   /\ cmp_pc' = [cmp_pc EXCEPT ![c] = "idle"]
    /\ UNCHANGED <<debug_assertions, data, wvars, fvars>>

(***************************************************************************)
(* Next-state relations.                                                   *)
(***************************************************************************)
\* the keys a caller may pass to write
InputKeys == {InternalKey(s, new_owned(b)) : s \in Seqs, b \in KeyBytes}
\* the narrower inputs of the specifications that add other threads
FewKeys == {InternalKey(s, new_owned(b)) : s \in Seqs, b \in {<<1>>, <<2>>}}
OneSeqKeys == {InternalKey(1, new_owned(b)) : b \in KeyBytes}

WriterNext(writers, parts, keys, values) ==
    \E t \in writers :
        \/ \E p \in parts, k \in keys, value \in values : Write(t, p, k, value)
        \/ SpuriousWakeup(t)

FlushNext(parts) ==
    \E p \in parts :
        \/ FlushSerialize(p)
        \/ FlushInstall(p)

FaultNext(parts) ==
    \E p \in parts :
        \/ \E e \in Errors : FlushFail(p, e)
        \/ FaultQuery(p)

CmpNext ==
    \E c \in Comparers :
        \/ \E a \in Partitions, b \in Partitions : CmpLockSelf(c, a, b)
        \/ CmpLockOther(c)

\* one partition: its writers and its flush
Next == WriterNext(Writers, {1}, InputKeys, Values) \/ FlushNext({1})

Spec == Init /\ [][Next]_vars

\* one partition, with the faults of the flush and the queries of the fault
NextFault == WriterNext({1}, {1}, FewKeys, Values) \/ FlushNext({1}) \/ FaultNext({1})

FaultSpec == Init /\ [][NextFault]_vars

\* two partitions and the threads comparing them
NextCmp == WriterNext({1}, Partitions, OneSeqKeys, Values) \/ CmpNext

CmpSpec == Init /\ [][NextCmp]_vars

\* the keys of callers that pass owned keys or transient views; the slices
\* behind the views are ones the callers keep alive and unchanged (static
\* data), so that reading a stored view is defined
OwnKeys == {InternalKey(1, uk) : uk \in {new_owned(b) : b \in KeyBytes}
                                       \cup {new_borrow(b) : b \in KeyBytes}}

\* one partition and one writer passing keys of either ownership mode
NextOwn == WriterNext({1}, {1}, OwnKeys, Values)

OwnSpec == Init /\ [][NextOwn]_vars

\* the same, with the scheduling of the flush thread: a flush that can be
\* serialised or installed eventually is.  Nothing makes Condvar::wait
\* return spuriously, so SpuriousWakeup has no fairness.
FairSpec ==
    /\ Init /\ [][Next]_vars
    /\ WF_vars(FlushSerialize(1))
    /\ WF_vars(FlushInstall(1))

(***************************************************************************)
(* Definitions used to state the properties.                               *)
(***************************************************************************)
\* writer t runs a pass of the admission loop for (k, value) on partition p
\* in this step: the call starts, or its wait returns
LoopStep(t, p, k, value) ==
    /\ ~poisoned[p]
    /\ \/ Write(t, p, k, value)
       \/ /\ req[t] = [p |-> p, key |-> k, value |-> value]
          /\ SpuriousWakeup(t)

\* the size estimate of a buffer as the data model defines it: the key and
\* value lengths and the per-entry overhead of every entry, plus the base
RECURSIVE PayloadAndOverhead(_)
PayloadAndOverhead(m) ==
    IF Len(m) = 0 THEN 0
    ELSE Len(key(Head(m).key.user_key)) + Len(Head(m).value)
         + TABLE_CATALOG_ITEM_SIZE + PayloadAndOverhead(Tail(m))

SizeEstimate(m) == PayloadAndOverhead(m) + TABLE_MIN_SIZE

\* the least and the greatest of a non-empty set of key bytes
MinKey(S) == CHOOSE x \in S : \A y \in S : Compare(x, y) # "Greater"
MaxKey(S) == CHOOSE x \in S : \A y \in S : Compare(x, y) # "Less"
AckedKeys(p) == {key(e.key.user_key) : e \in acked[p]}

(***************************************************************************)
(* C1. Buffer capacity bound: right after a write returns, the size        *)
(* estimate of the active buffer (payload and per-entry overhead of every  *)
(* entry, plus the base overhead) is at most the threshold, or the active  *)
(* buffer holds exactly the pair just inserted.                            *)
(***************************************************************************)
C1_CapacityBound ==
    [][\A t \in Writers, k \in InputKeys, value \in Values :
          (LoopStep(t, 1, k, value) /\ pc'[t] = "idle")
          => \/ SizeEstimate(data'[1].mem_table) <= table_size
             \/ data'[1].mem_table = <<[key |-> k, value |-> value]>>]_vars

(***************************************************************************)
(* C2. At most one pending flush: a pending-flush buffer is never          *)
(* replaced or dropped by a freeze (it leaves only when the flush installs *)
(* its table), and a writer whose pair does not fit while a flush is       *)
(* pending waits and changes nothing.                                      *)
(***************************************************************************)
C2_AtMostOnePendingFlush ==
    [][/\ (is_some(data[1].imm_table) /\ data'[1].imm_table # data[1].imm_table)
            => (flush_pc[1] = "built" /\ flush_pc'[1] # "built"
                /\ flush_table[1] = imm_data(data[1])
                /\ is_none(data'[1].imm_table))
       /\ (is_some(data[1].imm_table) /\ (nwrites' # nwrites \/ pc' # pc))
            => \A t \in Writers, k \in InputKeys, value \in Values :
                 (/\ memtable_size(data[1]) + kv_pair_size(k, value) > table_size
                  /\ LoopStep(t, 1, k, value))
                 => (pc'[t] = "waiting" /\ data' = data)]_vars

C2_Witness ==
    \E t \in Writers :
        /\ pc[t] = "waiting"
        /\ is_some(data[1].imm_table)
        /\ Len(unwrap(data[1].imm_table)) = 2
        /\ Len(data[1].mem_table) = 1

(***************************************************************************)
(* C3. Bounds correctness: whenever the partition lock is free, bounds()   *)
(* is (None, None) if no write has completed, and otherwise the least and  *)
(* the greatest, under the comparator, of the keys of the completed        *)
(* writes.                                                                 *)
(***************************************************************************)
C3_BoundsCorrect ==
    mutex[1] = Free =>
        IF acked[1] = {}
        THEN bounds(data[1]) = <<None, None>>
        ELSE /\ is_some(bounds(data[1])[1]) /\ is_some(bounds(data[1])[2])
             /\ key(unwrap(bounds(data[1])[1])) = MinKey(AckedKeys(1))
             /\ key(unwrap(bounds(data[1])[2])) = MaxKey(AckedKeys(1))

C3_Witness ==
    /\ mutex[1] = Free
    /\ Cardinality(AckedKeys(1)) = 3
    /\ key(unwrap(data[1].lower_bound)) = <<1>>
    /\ key(unwrap(data[1].upper_bound)) = <<2>>
    /\ is_some(data[1].imm_table)
    /\ \E e \in acked[1] : e.key.user_key.data = <<1, 2>>

(***************************************************************************)
(* Range comparison: the cases of two partitions' bounds.                  *)
(***************************************************************************)
HasBounds(d) == is_some(d.lower_bound) /\ is_some(d.upper_bound)
\* key bytes x lies in the range of d
InRange(x, d) ==
    /\ Compare(key(unwrap(d.lower_bound)), x) # "Greater"
    /\ Compare(x, key(unwrap(d.upper_bound))) # "Greater"
\* the range of d1 ends before the range of d2 begins
EndsBefore(d1, d2) ==
    /\ HasBounds(d1) /\ HasBounds(d2)
    /\ Compare(key(unwrap(d1.upper_bound)), key(unwrap(d2.lower_bound))) = "Less"
\* the ranges touch or overlap: some key lies in both
SharesKey(d1, d2) ==
    /\ HasBounds(d1) /\ HasBounds(d2)
    /\ \E x \in KeyBytes : InRange(x, d1) /\ InRange(x, d2)
\* comparing thread c gets its result in this step
CmpReturns(c) == cmp_pc[c] = "locked_self" /\ cmp_pc'[c] = "idle"

(***************************************************************************)
(* C4. Range-order antisymmetry: for two partitions with bounds [a,b] and  *)
(* [c,d] where b < c, partial_cmp of the first with the second is Less and *)
(* of the second with the first is Greater, in every reachable state and   *)
(* in every comparison a thread completes.                                 *)
(***************************************************************************)
C4_RangeOrderAntisymmetry ==
    /\ [](\A a \in Partitions, b \in Partitions :
            EndsBefore(data[a], data[b])
            => /\ partial_cmp(data[a], data[b]) = <<"Some", "Less">>
               /\ partial_cmp(data[b], data[a]) = <<"Some", "Greater">>)
    /\ [][\A c \in Comparers :
            CmpReturns(c)
            => LET d_self == data[cmp_req[c].self]
                   d_other == data[cmp_req[c].other]
               IN  /\ EndsBefore(d_self, d_other) => cmp_result'[c] = <<"Some", "Less">>
                   /\ EndsBefore(d_other, d_self) => cmp_result'[c] = <<"Some", "Greater">>]_vars

C4_Witness ==
    /\ EndsBefore(data[1], data[2])
    /\ key(unwrap(data[1].lower_bound)) # key(unwrap(data[1].upper_bound))
    /\ cmp_result[1] = <<"Some", "Less">>
    /\ cmp_result[2] = <<"Some", "Greater">>

(***************************************************************************)
(* C5. Overlap is reported as incomparable: for two partitions whose       *)
(* bounds touch or overlap, partial_cmp returns None in either direction   *)
(* (not Less, not Greater, not Equal), and Ord::cmp, which unwraps it,     *)
(* returns no ordering.                                                    *)
(***************************************************************************)
C5_OverlapIncomparable ==
    /\ [](\A a \in Partitions, b \in Partitions :
            (a # b /\ SharesKey(data[a], data[b]))
            => /\ partial_cmp(data[a], data[b]) = <<"None">>
               /\ partial_cmp(data[b], data[a]) = <<"None">>
               /\ partition_cmp(data[a], data[b]) = <<"panic">>)
    /\ [][\A c \in Comparers :
            (CmpReturns(c) /\ SharesKey(data[cmp_req[c].self], data[cmp_req[c].other]))
            => cmp_result'[c] = <<"None">>]_vars

\* one comparison of touching ranges and one of overlapping ranges returned
C5_Witness ==
    /\ cmp_result[1] = <<"None">>
    /\ cmp_result[2] = <<"None">>
    /\ HasBounds(data[1]) /\ HasBounds(data[2])
    /\ data[1].upper_bound = data[2].lower_bound
    /\ key(unwrap(data[1].lower_bound)) # key(unwrap(data[1].upper_bound))
    /\ key(unwrap(data[2].lower_bound)) # key(unwrap(data[2].upper_bound))

(***************************************************************************)
(* C6. Flush round-trip: every install of a flushed table completes        *)
(* without a panic, leaves the pending-flush slot empty and level 0 with   *)
(* exactly one more table file than before, and leaves the active buffer,  *)
(* the bounds and the fault slot unchanged.                                *)
(***************************************************************************)
\* the number of table files of level 0
Level0Files(d) == IF Len(d.levels) = 0 THEN 0 ELSE Len(d.levels[1])

C6_FlushRoundTrip ==
    [][(flush_pc[1] = "built" /\ ~poisoned[1] /\ FlushInstall(1))
       => /\ flush_pc'[1] = "idle"
          /\ ~poisoned'[1]
          /\ is_none(data'[1].imm_table)
          /\ Level0Files(data'[1]) = Level0Files(data[1]) + 1
          /\ data'[1].mem_table = data[1].mem_table
          /\ bounds(data'[1]) = bounds(data[1])
          /\ data'[1].background_error = data[1].background_error]_vars

(***************************************************************************)
(* C7. Wake on flush completion: a writer that is blocked on the condition *)
(* variable when the flush has cleared the pending-flush slot is woken     *)
(* afterwards, so it does not stay blocked forever.                        *)
(***************************************************************************)
C7_WakeOnFlushCompletion ==
    \A t \in Writers :
        (pc[t] = "waiting" /\ is_none(data[1].imm_table)) ~> (pc[t] # "waiting")

(***************************************************************************)
(* C8. No writer starvation: when both writers are blocked on the          *)
(* partition (buffer full, flush pending), with the flush scheduled fairly *)
(* each of them eventually inserts its pair and returns from write.        *)
(***************************************************************************)
C8_NoWriterStarvation ==
    \A t \in Writers :
        (\A u \in Writers : pc[u] = "waiting") ~> (pc[t] = "idle")

(***************************************************************************)
(* C9. Sticky fault: record_background_error(e) makes the fault slot hold  *)
(* e whatever it held before, background_error() returns Err of the fault *)
(* last recorded without clearing it, and nothing but a record changes the *)
(* slot: no write, freeze or flush install, and no query.                  *)
(***************************************************************************)
C9_StickyFault ==
    [][/\ \A e \in Errors :
            (~poisoned[1] /\ FlushFail(1, e))
                => background_error(data'[1]) = <<"Err", e>>
       /\ (~\E e \in Errors : ~poisoned[1] /\ FlushFail(1, e))
            => background_error(data'[1]) = background_error(data[1])
       /\ FaultQuery(1)
            => /\ fault_read'[1] = IF is_some(data[1].background_error)
                                   THEN <<"Err", unwrap(data[1].background_error)>>
                                   ELSE <<"Ok">>
               /\ data'[1].background_error = data[1].background_error]_vars

\* E1 was recorded and read, E2 was recorded over it, and since then a flush
\* was installed and a write has frozen the buffer again
C9_Witness ==
    /\ fault_read[1] = <<"Err", "E1">>
    /\ data[1].background_error = Some("E2")
    /\ flush_pc[1] = "panicked"
    /\ Len(data[1].mem_table) > 0

(***************************************************************************)
(* C10. Freeze preserves the old buffer: when a pass of the admission loop *)
(* finds that the pair does not fit and no flush is pending, the           *)
(* pending-flush buffer becomes the active buffer as it was before the     *)
(* step, entry for entry, and once the write has returned the active       *)
(* buffer holds the new pair only.                                         *)
(***************************************************************************)
C10_FreezePreservesBuffer ==
    [][(nwrites' # nwrites \/ pc' # pc)
       => \A t \in Writers, k \in InputKeys, value \in Values :
            (/\ is_none(data[1].imm_table)
             /\ Len(data[1].mem_table) * TABLE_CATALOG_ITEM_SIZE + TABLE_MIN_SIZE
                  + kv_pair_size(k, value) > table_size
             /\ LoopStep(t, 1, k, value))
            => /\ data'[1].imm_table = Some(data[1].mem_table)
               /\ pc'[t] = "idle"
                    => data'[1].mem_table = <<[key |-> k, value |-> value]>>]_vars

\* a full buffer of two entries was frozen by the write of a third pair
C10_Witness ==
    /\ is_some(data[1].imm_table)
    /\ Len(unwrap(data[1].imm_table)) = 2
    /\ Len(data[1].mem_table) = 1
    /\ Cardinality(acked[1]) = 3

\* buffer m holds the pair (k, value)
HoldsPair(m, k, value) ==
    \E i \in 1..Len(m) : m[i] = [key |-> k, value |-> value]

(***************************************************************************)
(* C11. write never rejects: every pass of the admission loop that does    *)
(* not wait (the pair fits, or the buffer is frozen for it) inserts the    *)
(* pair into the active buffer and returns Ok(()), for every pair size,    *)
(* a pair larger than the threshold included, and whether or not a         *)
(* background fault is recorded.                                           *)
(***************************************************************************)
C11_WriteNeverRejects ==
    [][(nwrites' # nwrites \/ pc' # pc)
       => \A k \in FewKeys, value \in Values :
            (LoopStep(1, 1, k, value) /\ pc'[1] # "waiting")
            => /\ pc'[1] = "idle"
               /\ HoldsPair(data'[1].mem_table, k, value)
               /\ [key |-> k, value |-> value] \in acked'[1]]_vars

(***************************************************************************)
(* C12. Only blocking condition: a pass of the admission loop ends in a    *)
(* wait on the condition variable exactly when the active buffer's size    *)
(* plus the pair's size exceeds the threshold and a pending-flush buffer   *)
(* exists; with no pending-flush buffer, or when the pair fits, the pass   *)
(* goes on to memtable_put without waiting (after a freeze when the pair   *)
(* does not fit), and the build without debug assertions inserts the pair. *)
(***************************************************************************)
C12_OnlyBlockingCondition ==
    [][(nwrites' # nwrites \/ pc' # pc)
       => \A t \in Writers, k \in InputKeys, value \in Values :
            LoopStep(t, 1, k, value)
            => LET exceeds == memtable_size(data[1]) + kv_pair_size(k, value) > table_size
                   pending == is_some(data[1].imm_table)
               IN  /\ pc'[t] = "waiting" <=> (exceeds /\ pending)
                   /\ (~(exceeds /\ pending) /\ ~debug_assertions)
                        => /\ pc'[t] = "idle"
                           /\ HoldsPair(data'[1].mem_table, k, value)
                   /\ (exceeds /\ ~pending)
                        => data'[1].imm_table = Some(data[1].mem_table)]_vars

\* a writer waits with a pair that does not fit while a flush is pending,
\* after another pair that just fitted the active buffer was admitted
C12_Witness ==
    \E t \in Writers :
        /\ pc[t] = "waiting"
        /\ is_some(data[1].imm_table)
        /\ memtable_size(data[1]) + kv_pair_size(req[t].key, req[t].value) > table_size
        /\ Len(data[1].mem_table) = 2
        /\ \E i \in 1..2 :
             kv_pair_size(data[1].mem_table[i].key, data[1].mem_table[i].value)
                 + TABLE_CATALOG_ITEM_SIZE + TABLE_MIN_SIZE = table_size

(***************************************************************************)
(* C13. Size estimate: in every state the active buffer's memtable_size()  *)
(* is the sum over its entries of key length plus value length, plus the   *)
(* per-entry overhead times the entry count, plus the base overhead; the   *)
(* running payload size is the payload of the entries of the active        *)
(* buffer (zero for a fresh one).                                          *)
(***************************************************************************)
C13_SizeEstimate ==
    /\ memtable_size(data[1]) = SizeEstimate(data[1].mem_table)
    /\ data[1].mem_table_data_size
         = PayloadAndOverhead(data[1].mem_table)
             - Len(data[1].mem_table) * TABLE_CATALOG_ITEM_SIZE

\* both comparing threads hold the guard of their own self and need the
\* guard the other one holds
Deadlocked ==
    /\ cmp_pc[1] = "locked_self" /\ cmp_pc[2] = "locked_self"
    /\ cmp_req[1].other = cmp_req[2].self
    /\ cmp_req[2].other = cmp_req[1].self
    /\ mutex[cmp_req[1].self] = C(1)
    /\ mutex[cmp_req[2].self] = C(2)

(***************************************************************************)
(* C14. Two-lock comparison can deadlock: partial_cmp takes the lock of    *)
(* its self first and only then the lock of other, in the order the caller *)
(* chose; once one thread runs A.partial_cmp(B) and the other              *)
(* B.partial_cmp(A) and each holds its first lock, neither ever gets its   *)
(* second lock: the state lasts forever.                                   *)
(***************************************************************************)
C14_TwoLockDeadlock ==
    [][/\ \A c \in Comparers :
            (cmp_pc[c] = "idle" /\ cmp_pc'[c] = "locked_self")
            => /\ mutex'[cmp_req'[c].self] = C(c)
               /\ mutex'[cmp_req'[c].other] = mutex[cmp_req'[c].other]
       /\ Deadlocked => (Deadlocked' /\ mutex' = mutex /\ cmp_pc' = cmp_pc)]_vars

\* the two threads are deadlocked on partitions that both have bounds
C14_Witness ==
    /\ Deadlocked
    /\ cmp_req[1].self # cmp_req[2].self
    /\ HasBounds(data[1]) /\ HasBounds(data[2])

\* every UserKey held by buffer m is the owned variant
OwnedKeys(m) == \A i \in 1..Len(m) : is_owned(m[i].key.user_key)

(***************************************************************************)
(* C15. Owned-only storage: whatever the ownership mode of the keys passed *)
(* to write, every UserKey held as lower bound, as upper bound or as a key *)
(* of the active or of the pending-flush buffer is the owned variant.      *)
(***************************************************************************)
C15_OwnedOnlyStorage ==
    /\ is_some(data[1].lower_bound) => is_owned(unwrap(data[1].lower_bound))
    /\ is_some(data[1].upper_bound) => is_owned(unwrap(data[1].upper_bound))
    /\ OwnedKeys(data[1].mem_table)
    /\ is_some(data[1].imm_table) => OwnedKeys(unwrap(data[1].imm_table))

(***************************************************************************)
(* C16. Bounds well-formedness: in every reachable state the lower and the *)
(* upper bound are both present or both absent, they are absent exactly    *)
(* when no write has completed, and when present lower <= upper; from one  *)
(* state to the next the bounds stay present, the lower bound never        *)
(* increases and the upper bound never decreases.                          *)
(***************************************************************************)
C16_BoundsWellFormed ==
    /\ [](/\ debug_bounds_sanity_check(data[1])
          /\ is_none(data[1].lower_bound) <=> (acked[1] = {})
          /\ HasBounds(data[1])
               => UserKeyCmp(unwrap(data[1].lower_bound),
                             unwrap(data[1].upper_bound)) # "Greater")
    /\ [][HasBounds(data[1])
          => /\ HasBounds(data'[1])
             /\ UserKeyCmp(unwrap(data'[1].lower_bound),
                           unwrap(data[1].lower_bound)) # "Greater"
             /\ UserKeyCmp(unwrap(data'[1].upper_bound),
                           unwrap(data[1].upper_bound)) # "Less"]_vars

\* the bounds were widened on both sides, the last time by the write that
\* froze the buffer, and the flush of that buffer has run its install
C16_Witness ==
    /\ flush_pc[1] = "panicked"
    /\ is_none(data[1].imm_table)
    /\ Len(data[1].mem_table) = 1
    /\ Cardinality(acked[1]) = 3
    /\ HasBounds(data[1])
    /\ key(unwrap(data[1].lower_bound)) = <<1>>
    /\ key(unwrap(data[1].upper_bound)) = <<2>>
    /\ key(data[1].mem_table[1].key.user_key) = <<2>>

\* the triples (seq, key bytes, value) of T ascend strictly: by sequence
\* number first and, among equal sequence numbers, by key bytes
EmittedAscending(T) ==
    \A i \in 1..Len(T), j \in 1..Len(T) :
        i < j => \/ T[i][1] < T[j][1]
                 \/ T[i][1] = T[j][1] /\ Compare(T[i][2], T[j][2]) = "Less"

\* the triple add_kv receives for the pair e
Triple(e) == <<e.key.seq, key(e.key.user_key), e.value>>

(***************************************************************************)
(* C17. Flush emission order: what imm_data hands to the table builder is  *)
(* every entry of the pending-flush buffer exactly once (as many triples   *)
(* as entries, the same set, each a pair some write was acknowledged for), *)
(* in strictly ascending order of sequence number first and user key       *)
(* second, whatever order the pairs were written in.                       *)
(***************************************************************************)
C17_FlushEmissionOrder ==
    flush_pc[1] = "built" =>
        LET T == flush_table[1]
            imm == unwrap(data[1].imm_table)
        IN  /\ Len(T) = Len(imm)
            /\ {T[i] : i \in 1..Len(T)} = {Triple(imm[i]) : i \in 1..Len(imm)}
            /\ {T[i] : i \in 1..Len(T)} \subseteq {Triple(e) : e \in acked[1]}
            /\ EmittedAscending(T)

\* a buffer holding (seq 2, key [1]) and (seq 1, key [2]) was serialised:
\* the lower sequence number comes first although its key is greater
C17_Witness ==
    /\ flush_pc[1] = "built"
    /\ Len(flush_table[1]) = 2
    /\ flush_table[1][1][1] = 1 /\ flush_table[1][1][2] = <<2>>
    /\ flush_table[1][2][1] = 2 /\ flush_table[1][2][2] = <<1>>

(***************************************************************************)
(* C18. memtable_put's assertion holds on every call: whenever a pass of   *)
(* the admission loop breaks out and write calls memtable_put, on the      *)
(* buffer as it is or on the fresh buffer a freeze has just installed,     *)
(* memtable_size() + kv_pair_size(key, value) <= table_size.               *)
(***************************************************************************)
C18_PutAssertionHolds ==
    [][(nwrites' # nwrites \/ pc' # pc)
       => \A t \in Writers, k \in InputKeys, value \in Values :
            (LoopStep(t, 1, k, value) /\ pc'[t] # "waiting")
            => memtable_size(admit(data[1], k, value)) + kv_pair_size(k, value)
                 <= table_size]_vars

\* the completed writes had pairwise distinct (sequence number, user key):
\* as many keys are acknowledged as write calls have returned
DistinctWrites ==
    Cardinality({e.key : e \in acked[1]})
        = nwrites - Cardinality({t \in Writers : pc[t] # "idle"})

\* the places a pair can be in
InActive(d, e) == HoldsPair(d.mem_table, e.key, e.value)
InPendingFlush(d, e) ==
    is_some(d.imm_table) /\ HoldsPair(unwrap(d.imm_table), e.key, e.value)
InLevel0(d, e) ==
    /\ Len(d.levels) > 0
    /\ \E f \in 1..Len(d.levels[1]) :
         \E i \in 1..Len(d.levels[1][f]) : d.levels[1][f][i] = Triple(e)

(***************************************************************************)
(* C19. No acknowledged write is lost: when the completed writes had       *)
(* pairwise distinct (sequence number, user key), every pair whose write   *)
(* returned Ok(()) is in exactly one place: the active buffer, the         *)
(* pending-flush buffer, or a table of level 0 (where the flush install    *)
(* puts the table built from the pending-flush buffer it removes).         *)
(***************************************************************************)
C19_NoAckedWriteLost ==
    DistinctWrites
    => \A e \in acked[1] :
         \/ InActive(data[1], e) /\ ~InPendingFlush(data[1], e) /\ ~InLevel0(data[1], e)
         \/ ~InActive(data[1], e) /\ InPendingFlush(data[1], e) /\ ~InLevel0(data[1], e)
         \/ ~InActive(data[1], e) /\ ~InPendingFlush(data[1], e) /\ InLevel0(data[1], e)

(***************************************************************************)
(* C20. Range comparison is defined in every reachable state: a thread     *)
(* that holds both guards (neither mutex poisoned) completes partial_cmp   *)
(* without a panic and gets Some(Less), Some(Greater) or None, also when   *)
(* one or both partitions have received no write and have no bounds.       *)
(***************************************************************************)
C20_RangeComparisonDefined ==
    [][\A c \in Comparers :
          (/\ cmp_pc[c] = "locked_self"
           /\ cmp_pc'[c] # "locked_self"
           /\ ~poisoned[cmp_req[c].other])
          => /\ cmp_pc'[c] = "idle"
             /\ cmp_result'[c] \in {<<"Some", "Less">>, <<"Some", "Greater">>, <<"None">>}
             /\ poisoned' = poisoned]_vars

====
